---- MODULE Spec2Model ----
(***************************************************************************)
(* Swerve drive subsystem (subsystems/drivesubsystem.py): the four swerve  *)
(* modules, the gyro, the wpimath kinematics and odometry objects and the  *)
(* DriveSubsystem operations that use them.                                *)
(*                                                                         *)
(* Units.  Angles are whole degrees.  Lengths are centimetres, speeds      *)
(* cm/s, angular velocity rad/s.  Sines and cosines are thousandths        *)
(* (SinTab).  A wheel speed after desaturation is an exact fraction        *)
(* [num, den].  Pose coordinates are in PoseUnit-ths of a centimetre so    *)
(* that the mean over the four modules and the trigonometric scale divide  *)
(* exactly whenever the heading is a multiple of 90 degrees.               *)
(***************************************************************************)
EXTENDS Integers, Sequences, FiniteSets, TLC

VARIABLES
    kinematics,                 \* module -> wheel offset the kinematics object was built from
    swerveAngle,                \* module -> getSwerveAngle(), degrees (not normalised)
    wheelTotalPosition,         \* module -> getWheelTotalPosition(), cm
    gyroYaw,                    \* navX accumulated yaw, degrees
    gyroAdjustment,             \* navX angle adjustment, degrees
    odometry,                   \* SwerveDrive4Odometry: pose, previousAngle, gyroOffset, previous distances
    wheelMotor,                 \* module -> last value a PWMSwerveModule wrote to its wheel motor
    swerveMotor,                \* module -> last value a PWMSwerveModule wrote to its steering motor
    wheelLinearVelocityTarget,  \* module -> last speed target it was sent
    swerveAngleTarget,          \* module -> << >> or <<last angle target it was sent>>
    sent,                       \* module -> the commands it received in the last operation, in order
    call,                       \* the last operation: its name, arguments and locals
    sensed                      \* number of sensor changes so far

vars == << kinematics, swerveAngle, wheelTotalPosition, gyroYaw, gyroAdjustment, odometry,
           wheelMotor, swerveMotor, wheelLinearVelocityTarget, swerveAngleTarget,
           sent, call, sensed >>

-----------------------------------------------------------------------------
(* Bounds of the model *)

\* sensor changes (steer, roll, turn) in one behaviour
MaxSensed == 1

-----------------------------------------------------------------------------
(* constants.py *)

kMaxForwardLinearVelocity == 300
kMaxSidewaysLinearVelocity == 300
kMaxRotationAngularVelocity == 10
kMaxWheelLinearVelocity == 300
kMinWheelLinearVelocity == 2
\* half the wheel base and half the track width, cm
kHalfWheelBase == 30
kHalfTrackWidth == 30

\* self.modules, and the argument order of SwerveDrive4Kinematics
frontLeft == 1
frontRight == 2
backLeft == 3
backRight == 4
Modules == {frontLeft, frontRight, backLeft, backRight}

\* kFrontLeftWheelPosition .. kBackRightWheelPosition: x forward, y left
kWheelPosition ==
    [i \in Modules |->
        CASE i = frontLeft  -> [x |-> kHalfWheelBase,  y |-> kHalfTrackWidth]
          [] i = frontRight -> [x |-> kHalfWheelBase,  y |-> -kHalfTrackWidth]
          [] i = backLeft   -> [x |-> -kHalfWheelBase, y |-> kHalfTrackWidth]
          [] i = backRight  -> [x |-> -kHalfWheelBase, y |-> -kHalfTrackWidth]]

-----------------------------------------------------------------------------
(* Arithmetic *)

Abs(n) == IF n < 0 THEN -n ELSE n

Sign(n) == IF n < 0 THEN -1 ELSE IF n > 0 THEN 1 ELSE 0

\* a / b rounded to the nearest integer, halves away from zero (b > 0)
RoundDiv(a, b) == Sign(a) * ((2 * Abs(a) + b) \div (2 * b))

RECURSIVE Gcd(_, _)
Gcd(a, b) == IF b = 0 THEN a ELSE Gcd(b, a % b)

\* the fraction n / d in lowest terms, d > 0
Rat(n, d) ==
    LET g == Gcd(Abs(n), Abs(d))
    IN  [num |-> Sign(d) * (n \div g), den |-> Abs(d) \div g]

RatInt(n) == [num |-> n, den |-> 1]
RatNeg(r) == [num |-> -r.num, den |-> r.den]
RatAbs(r) == [num |-> Abs(r.num), den |-> r.den]
RatLess(r, s) == r.num * s.den < s.num * r.den
RatMul(r, s) == Rat(r.num * s.num, r.den * s.den)

RECURSIVE SqrtSearch(_, _, _)
SqrtSearch(n, lo, hi) ==
    IF lo >= hi THEN lo
    ELSE LET mid == (lo + hi + 1) \div 2
         IN  IF mid * mid <= n THEN SqrtSearch(n, mid, hi) ELSE SqrtSearch(n, lo, mid - 1)

\* math.hypot, to the nearest cm/s
Hypot(x, y) ==
    LET n == x * x + y * y
        r == SqrtSearch(n, 0, Abs(x) + Abs(y))
    IN  IF n - r * r > r THEN r + 1 ELSE r

-----------------------------------------------------------------------------
(* wpimath.geometry.Rotation2d *)

\* 1000 * sin(a) for a = 0 .. 90 degrees
SinTab == <<
    0, 17, 35, 52, 70, 87, 105, 122, 139, 156, 174, 191, 208,
    225, 242, 259, 276, 292, 309, 326, 342, 358, 375, 391, 407, 423,
    438, 454, 469, 485, 500, 515, 530, 545, 559, 574, 588, 602, 616,
    629, 643, 656, 669, 682, 695, 707, 719, 731, 743, 755, 766, 777,
    788, 799, 809, 819, 829, 839, 848, 857, 866, 875, 883, 891, 899,
    906, 914, 921, 927, 934, 940, 946, 951, 956, 961, 966, 970, 974,
    978, 982, 985, 988, 990, 993, 995, 996, 998, 999, 999, 1000, 1000 >>

TrigScale == SinTab[91]

\* the angle in (-180, 180] a Rotation2d built from a sine and a cosine holds
Norm(a) ==
    LET m == a % 360
    IN  IF m > 180 THEN m - 360 ELSE m

Sin(a) ==
    LET n == Norm(a)
        m == Abs(n)
        s == IF m <= 90 THEN SinTab[m + 1] ELSE SinTab[180 - m + 1]
    IN  IF n < 0 THEN -s ELSE s

Cos(a) == Sin(a + 90)

\* the least a in lo .. hi with q * sin(a) >= p * cos(a)
RECURSIVE AtanSearch(_, _, _, _)
AtanSearch(p, q, lo, hi) ==
    IF lo >= hi THEN lo
    ELSE LET mid == (lo + hi) \div 2
         IN  IF q * Sin(mid) - p * Cos(mid) >= 0
             THEN AtanSearch(p, q, lo, mid)
             ELSE AtanSearch(p, q, mid + 1, hi)

\* the nearer of up - 1 and up to atan(p / q)
AtanNearest(p, q, up) ==
    IF up > 0 /\ p * Cos(up - 1) - q * Sin(up - 1) <= q * Sin(up) - p * Cos(up)
    THEN up - 1 ELSE up

\* atan2 for 0 <= p <= q, q > 0: the whole degree in 0 .. 45 nearest to atan(p / q)
AtanOctant(p, q) == AtanNearest(p, q, AtanSearch(p, q, 0, 45))

\* Rotation2d(x, y).degrees(); Rotation2d(0, 0) is the zero rotation
Atan2(y, x) ==
    LET ax == Abs(x)
        ay == Abs(y)
        a == IF ax = 0 /\ ay = 0 THEN 0
             ELSE IF ay <= ax THEN AtanOctant(ay, ax)
             ELSE 90 - AtanOctant(ax, ay)
    IN  IF x >= 0 /\ y >= 0 THEN a
        ELSE IF x < 0 /\ y >= 0 THEN 180 - a
        ELSE IF x < 0 THEN a - 180
        ELSE -a

\* the shortest signed delta (target - current).degrees()
AngleDelta(target, current) == Norm(target - current)

-----------------------------------------------------------------------------
(* wpimath.kinematics: SwerveModuleState, ChassisSpeeds, SwerveDrive4Kinematics *)

ChassisSpeeds(vx, vy, omega) == [vx |-> vx, vy |-> vy, omega |-> omega]

SwerveModuleState(speed, angle) == [speed |-> speed, angle |-> angle]

\* fromFieldRelativeSpeeds taking the heading from the sideways axis
FromFieldRelativeSpeedsOffAxis(vx, vy, omega, robotAngle) ==
    ChassisSpeeds(
        RoundDiv(vx * Sin(robotAngle) + vy * Cos(robotAngle), TrigScale),
        RoundDiv(vy * Sin(robotAngle) - vx * Cos(robotAngle), TrigScale),
        omega)

\* ChassisSpeeds.fromFieldRelativeSpeeds: (vx, vy) rotated by -robotAngle
FromFieldRelativeSpeeds(vx, vy, omega, robotAngle) ==
    ChassisSpeeds(
        RoundDiv(vx * Cos(robotAngle) + vy * Sin(robotAngle), TrigScale),
        RoundDiv(vy * Cos(robotAngle) - vx * Sin(robotAngle), TrigScale),
        omega)

\* the state of the wheel at offset from the centre: its velocity is the chassis
\* velocity plus omega x offset; the norm is the speed, the direction the angle.
\* For zero chassis speeds the speed is zero and the angle is the one the library
\* reports then (rest).
ModuleState(offset, speeds, rest) ==
    IF speeds.vx = 0 /\ speeds.vy = 0 /\ speeds.omega = 0
    THEN SwerveModuleState(0, rest)
    ELSE LET mx == speeds.vx - speeds.omega * offset.y
             my == speeds.vy + speeds.omega * offset.x
         IN  SwerveModuleState(Hypot(mx, my), Atan2(my, mx))

\* self.kinematics.toSwerveModuleStates
ToSwerveModuleStates(speeds, rest) ==
    [i \in Modules |-> ModuleState(kinematics[i], speeds, rest)]

RECURSIVE MaxOver(_, _)
MaxOver(f, S) ==
    IF S = {} THEN 0
    ELSE LET i == CHOOSE j \in S : TRUE
             m == MaxOver(f, S \ {i})
         IN  IF f[i] > m THEN f[i] ELSE m

\* desaturation cutting each wheel's speed to the limit by itself
DesaturateEachWheel(moduleStates, attainableMaxSpeed) ==
    [i \in Modules |->
        IF Abs(moduleStates[i].speed) > attainableMaxSpeed
        THEN SwerveModuleState(RatInt(Sign(moduleStates[i].speed) * attainableMaxSpeed),
                               moduleStates[i].angle)
        ELSE SwerveModuleState(RatInt(moduleStates[i].speed), moduleStates[i].angle)]

\* SwerveDrive4Kinematics.desaturateWheelSpeeds: speed / realMaxSpeed * attainableMaxSpeed
DesaturateWheelSpeeds(moduleStates, attainableMaxSpeed) ==
    LET realMaxSpeed == MaxOver([i \in Modules |-> Abs(moduleStates[i].speed)], Modules)
    IN  [i \in Modules |->
            IF realMaxSpeed > attainableMaxSpeed
            THEN SwerveModuleState(
                    RatMul(Rat(moduleStates[i].speed, realMaxSpeed), RatInt(attainableMaxSpeed)),
                    moduleStates[i].angle)
            ELSE SwerveModuleState(RatInt(moduleStates[i].speed), moduleStates[i].angle)]

\* optimize turning the angle about without negating the speed
OptimizeKeepingSpeed(desiredState, currentAngle) ==
    IF Abs(AngleDelta(desiredState.angle, currentAngle)) > 90
    THEN SwerveModuleState(desiredState.speed, Norm(desiredState.angle + 180))
    ELSE desiredState

\* optimize turning the angle about at a quarter turn already
OptimizeFromQuarterTurn(desiredState, currentAngle) ==
    IF Abs(AngleDelta(desiredState.angle, currentAngle)) >= 90
    THEN SwerveModuleState(RatNeg(desiredState.speed), Norm(desiredState.angle + 180))
    ELSE desiredState

\* SwerveModuleState.optimize(desiredState, currentAngle)
Optimize(desiredState, currentAngle) ==
    IF Abs(AngleDelta(desiredState.angle, currentAngle)) > 90
    THEN SwerveModuleState(RatNeg(desiredState.speed), Norm(desiredState.angle + 180))
    ELSE desiredState

-----------------------------------------------------------------------------
(* util.convenietmath.optimizeAngle and SwerveModule *)

\* optimizeAngle(currentAngle, targetAngle)
optimizeAngle(currentAngle, targetAngle) ==
    IF Abs(AngleDelta(targetAngle, currentAngle)) > 90
    THEN Norm(targetAngle + 180)
    ELSE targetAngle

\* SwerveModule.optimizedAngle of a module whose getSwerveAngle() is currentAngle
optimizedAngle(currentAngle, targetAngle) == optimizeAngle(currentAngle, targetAngle)

\* the two commands of the module contract that set a target
SpeedCmd(speed) == [name |-> "setWheelLinearVelocityTarget", speed |-> speed, angle |-> 0]
AngleCmd(angle) == [name |-> "setSwerveAngleTarget", speed |-> RatInt(0), angle |-> angle]

\* applyState sending the angle target whatever the speed
applyStateAlwaysSteering(state, currentAngle) ==
    LET optimizedState == Optimize(state, currentAngle)
    IN  << SpeedCmd(optimizedState.speed),
           AngleCmd(optimizedAngle(currentAngle, optimizedState.angle)) >>

\* applyState comparing the signed speed with the minimum
applyStateSignedThreshold(state, currentAngle) ==
    LET optimizedState == Optimize(state, currentAngle)
    IN  << SpeedCmd(optimizedState.speed) >> \o
        (IF ~RatLess(optimizedState.speed, RatInt(kMinWheelLinearVelocity))
         THEN << AngleCmd(optimizedAngle(currentAngle, optimizedState.angle)) >>
         ELSE << >>)

\* applyState handing the state on as it came
applyStateUnoptimized(state, currentAngle) ==
    << SpeedCmd(state.speed) >> \o
    (IF ~RatLess(RatAbs(state.speed), RatInt(kMinWheelLinearVelocity))
     THEN << AngleCmd(state.angle) >>
     ELSE << >>)

\* SwerveModule.applyState: the commands, in order, that a module whose
\* getSwerveAngle() is currentAngle receives
applyState(state, currentAngle) ==
    LET optimizedState == Optimize(state, currentAngle)
    IN  << SpeedCmd(optimizedState.speed) >> \o
        (IF ~RatLess(RatAbs(optimizedState.speed), RatInt(kMinWheelLinearVelocity))
         THEN << AngleCmd(optimizedAngle(currentAngle, optimizedState.angle)) >>
         ELSE << >>)

SpeedCmds(cmds) == SelectSeq(cmds, LAMBDA c : c.name = "setWheelLinearVelocityTarget")
AngleCmds(cmds) == SelectSeq(cmds, LAMBDA c : c.name = "setSwerveAngleTarget")

\* SwerveModule.reset: REVSwerveModule sets the steering encoder to the absolute
\* encoder's angle (Signed_PlusMinus180); PWMSwerveModule does nothing
resetAngle(isReal, angle) == IF isReal THEN Norm(angle) ELSE angle

-----------------------------------------------------------------------------
(* PWMSwerveModule *)

\* min(max(r, -1), 1)
Clamp(r) ==
    LET raised == IF RatLess(r, RatInt(-1)) THEN RatInt(-1) ELSE r
    IN  IF RatLess(RatInt(1), raised) THEN RatInt(1) ELSE raised

\* Rotation2d.radians() of an angle in degrees, and the radians a steering
\* encoder holds when it reads that angle: thousandths of a radian
Radians(angle) == RoundDiv(angle * 31416, 1800)

\* setWheelLinearVelocityTarget writing the speed factor as it is
PWMWheelOutputUnclamped(target) ==
    RatMul(target, Rat(1, kMaxWheelLinearVelocity))

\* PWMSwerveModule.setWheelLinearVelocityTarget: the value written to wheelMotor
PWMWheelOutput(target) ==
    Clamp(RatMul(target, Rat(1, kMaxWheelLinearVelocity)))

\* PWMSwerveModule.setSwerveAngleTarget: the value written to swerveMotor when
\* the steering encoder reads encoderAngle
PWMSwerveOutput(target, encoderAngle) ==
    Clamp(Rat(Radians(Norm(target)) - Radians(encoderAngle), 1000))

\* the wheel motor's value after the module received cmds
WheelMotorAfter(old, cmds) ==
    IF SpeedCmds(cmds) = << >> THEN old
    ELSE PWMWheelOutput(SpeedCmds(cmds)[Len(SpeedCmds(cmds))].speed)

\* the steering motor's value after the module received cmds
SwerveMotorAfter(old, cmds, encoderAngle) ==
    IF AngleCmds(cmds) = << >> THEN old
    ELSE PWMSwerveOutput(AngleCmds(cmds)[Len(AngleCmds(cmds))].angle, encoderAngle)

-----------------------------------------------------------------------------
(* navX gyro *)

\* gyro.getRotation2d(): Rotation2d.fromDegrees(-getAngle())
getRotation(yaw, adjustment) == -(yaw + adjustment)

-----------------------------------------------------------------------------
(* wpimath.kinematics.SwerveDrive4Odometry *)

\* pose coordinates are in 1 / PoseUnit cm
PoseUnit == 4 * TrigScale

Pose2d(x, y, rot) == [x |-> x, y |-> y, rot |-> rot]

RECURSIVE SumOver(_, _)
SumOver(f, S) ==
    IF S = {} THEN 0
    ELSE LET i == CHOOSE j \in S : TRUE IN f[i] + SumOver(f, S \ {i})

\* kinematics.toTwist2d of the module deltas, times PoseUnit: with the wheels
\* placed symmetrically about the centre the least-squares solution is the
\* mean of the four displacement vectors
ToTwist2d(moduleDeltas) ==
    [dx |-> SumOver([i \in Modules |-> moduleDeltas[i].distance * Cos(moduleDeltas[i].angle)], Modules),
     dy |-> SumOver([i \in Modules |-> moduleDeltas[i].distance * Sin(moduleDeltas[i].angle)], Modules)]

\* Pose2d.exp(twist): dtheta in degrees
PoseExp(pose, dx, dy, dtheta) ==
    LET s == IF dtheta = 0 THEN TrigScale
             ELSE RoundDiv(Sin(Abs(dtheta)) * 57296, Abs(dtheta) * TrigScale)
        c == IF dtheta = 0 THEN 0
             ELSE Sign(dtheta) * RoundDiv((TrigScale - Cos(dtheta)) * 57296, Abs(dtheta) * TrigScale)
        tx == RoundDiv(dx * s - dy * c, TrigScale)
        ty == RoundDiv(dx * c + dy * s, TrigScale)
    IN  Pose2d(pose.x + RoundDiv(tx * Cos(pose.rot) - ty * Sin(pose.rot), TrigScale),
               pose.y + RoundDiv(tx * Sin(pose.rot) + ty * Cos(pose.rot), TrigScale),
               Norm(pose.rot + dtheta))

\* SwerveDrive4Odometry(kinematics, gyroAngle, modulePositions, initialPose)
SwerveDrive4Odometry(gyroAngle, positions, initialPose) ==
    [pose |-> initialPose,
     previousAngle |-> initialPose.rot,
     gyroOffset |-> Norm(initialPose.rot - gyroAngle),
     previousDistance |-> [i \in Modules |-> positions[i].distance]]

\* resetPosition leaving the last-position snapshot as it was
ResetPositionKeepingSnapshot(gyroAngle, pose, positions) ==
    [pose |-> pose,
     previousAngle |-> pose.rot,
     gyroOffset |-> Norm(pose.rot - gyroAngle),
     previousDistance |-> odometry.previousDistance]

\* odometry.resetPosition(gyroAngle, pose, *modulePositions)
ResetPosition(gyroAngle, pose, positions) ==
    [pose |-> pose,
     previousAngle |-> pose.rot,
     gyroOffset |-> Norm(pose.rot - gyroAngle),
     previousDistance |-> [i \in Modules |-> positions[i].distance]]

\* update integrating the whole distances, not what was added since the snapshot
UpdateOfWholeDistance(odo, gyroAngle, positions) ==
    LET angle == Norm(gyroAngle + odo.gyroOffset)
        twist == ToTwist2d(positions)
        newPose == PoseExp(odo.pose, twist.dx, twist.dy, AngleDelta(angle, odo.previousAngle))
    IN  [pose |-> Pose2d(newPose.x, newPose.y, angle),
         previousAngle |-> angle,
         gyroOffset |-> odo.gyroOffset,
         previousDistance |-> [i \in Modules |-> positions[i].distance]]

\* update leaving the last-position snapshot as it was
UpdateKeepingSnapshot(odo, gyroAngle, positions) ==
    LET moduleDeltas == [i \in Modules |->
                            [distance |-> positions[i].distance - odo.previousDistance[i],
                             angle |-> positions[i].angle]]
        angle == Norm(gyroAngle + odo.gyroOffset)
        twist == ToTwist2d(moduleDeltas)
        newPose == PoseExp(odo.pose, twist.dx, twist.dy, AngleDelta(angle, odo.previousAngle))
    IN  [pose |-> Pose2d(newPose.x, newPose.y, angle),
         previousAngle |-> angle,
         gyroOffset |-> odo.gyroOffset,
         previousDistance |-> odo.previousDistance]

\* odometry.update(gyroAngle, *modulePositions)
Update(odo, gyroAngle, positions) ==
    LET moduleDeltas == [i \in Modules |->
                            [distance |-> positions[i].distance - odo.previousDistance[i],
                             angle |-> positions[i].angle]]
        angle == Norm(gyroAngle + odo.gyroOffset)
        twist == ToTwist2d(moduleDeltas)
        newPose == PoseExp(odo.pose, twist.dx, twist.dy, AngleDelta(angle, odo.previousAngle))
    IN  [pose |-> Pose2d(newPose.x, newPose.y, angle),
         previousAngle |-> angle,
         gyroOffset |-> odo.gyroOffset,
         previousDistance |-> [i \in Modules |-> positions[i].distance]]

-----------------------------------------------------------------------------
(* Inputs *)

Reading(fl, fr, bl, br) ==
    [i \in Modules |-> CASE i = frontLeft -> fl [] i = frontRight -> fr
                          [] i = backLeft -> bl [] i = backRight -> br]

\* angles the four steering encoders read; 270 and -225 are not normalised
SwerveAngles == {Reading(0, 0, 0, 0), Reading(90, -90, 180, 45),
                 Reading(-135, 270, -225, 135), Reading(45, 135, -45, -90)}

\* distances the four wheels roll between two operations, cm
WheelMoves == {Reading(5, 5, 5, 5), Reading(-1, -2, -3, -4), Reading(3, 0, 0, 0)}

\* distances the four wheels have rolled when a cycle is skipped, cm
SkippedMoves == {Reading(0, 0, 0, 0), Reading(2, 3, -1, 0), Reading(5, 5, 5, 5),
                 Reading(-4, 7, 1, -2)}

\* wheel positions the encoders hold at construction
StartPositions == {Reading(10, 20, 30, 40)}

\* chassis speeds given to arcadeDriveWithSpeeds in SpecDrive: cm/s and rad/s
ForwardSpeeds == {-300, 0, 1, 300}
SidewaysSpeeds == {0, 300}
AngularSpeeds == {0, 10}

\* factors given to arcadeDriveWithFactors in SpecDrive, in hundredths
Factors == {0, 200}

\* chassis speeds and factors given to the drive calls in Spec
FewForwardSpeeds == {0, 300}
FewSidewaysSpeeds == {0}
FewAngularSpeeds == {10}
FewFactors == {0}

CoordinateMode == {"RobotRelative", "FieldRelative"}

\* wheel offsets constants.py may hold: the robot's, the front right wheel on
\* the front left wheel's offset, all four wheels on one offset
Geometries ==
    {kWheelPosition,
     [kWheelPosition EXCEPT ![frontRight] = kWheelPosition[frontLeft]],
     [i \in Modules |-> kWheelPosition[frontLeft]]}

\* speed targets given to setWheelLinearVelocityTarget, cm/s
WheelTargets == {-900, -301, -150, 0, 2, 300, 600}

\* angle targets given to setSwerveAngleTarget, degrees
AngleTargets == {-135, 0, 30, 100, 180, 270}

\* coordinates of the points given to rotatePoint and of the poses given to
\* shiftPoint
Coordinates == {-3, 0, 1, 2}

\* angles given to rotatePoint and headings of the poses given to shiftPoint:
\* multiples of 90 degrees, where sine and cosine are -1, 0 or 1
QuarterTurns == {-90, 0, 90, 180}

\* poses given to setOdometryPosition and resetGyro
Poses == {Pose2d(0, 0, 0), Pose2d(100 * PoseUnit, -50 * PoseUnit, 90)}

\* angles toSwerveModuleStates may report for the modules at zero chassis speeds
RestAngles == {0, 135}
RestAnglesFor(chassisSpeeds) ==
    IF chassisSpeeds = ChassisSpeeds(0, 0, 0) THEN RestAngles ELSE {0}

-----------------------------------------------------------------------------
(* The last operation *)

NoSpeeds == ChassisSpeeds(0, 0, 0)
NoModuleStates == [i \in Modules |-> SwerveModuleState(0, 0)]
NoStates == [i \in Modules |-> SwerveModuleState(RatInt(0), 0)]
NoAngles == [i \in Modules |-> 0]
NoCommands == [i \in Modules |-> << >>]
NoReadings == [heading |-> 0, positions |-> [i \in Modules |-> [distance |-> 0, angle |-> 0]]]

DriveCall(chassisSpeeds, coordinateMode, robotChassisSpeeds, moduleStates, desaturated, currentAngle) ==
    [op |-> "arcadeDriveWithSpeeds",
     chassisSpeeds |-> chassisSpeeds,             \* argument of arcadeDriveWithSpeeds
     coordinateMode |-> coordinateMode,           \* argument of arcadeDriveWithSpeeds
     robotChassisSpeeds |-> robotChassisSpeeds,   \* local of arcadeDriveWithSpeeds
     moduleStates |-> moduleStates,               \* local of arcadeDriveWithSpeeds
     desaturated |-> desaturated,                 \* frontLeftState .. backRightState
     currentAngle |-> currentAngle,               \* what getSwerveAngle() returned in applyState
     pose |-> Pose2d(0, 0, 0),
     readings |-> NoReadings]

OdometryCall(op, pose, heading, positions) ==
    [op |-> op,
     chassisSpeeds |-> NoSpeeds,
     coordinateMode |-> "RobotRelative",
     robotChassisSpeeds |-> NoSpeeds,
     moduleStates |-> NoModuleStates,
     desaturated |-> NoStates,
     currentAngle |-> NoAngles,
     pose |-> pose,                               \* argument of setOdometryPosition, resetGyro
     readings |-> [heading |-> heading,           \* the rotation and the positions passed
                   positions |-> positions]]      \* to the odometry

\* a call of one method on each of the four modules
ModuleCall(op, currentAngle) ==
    [DriveCall(NoSpeeds, "RobotRelative", NoSpeeds, NoModuleStates, NoStates, currentAngle)
        EXCEPT !.op = op]

OdometryOps == {"__init__", "periodic", "resetSwerveModules", "setOdometryPosition", "resetGyro"}

ResetOps == {"resetSwerveModules", "setOdometryPosition", "resetGyro"}

-----------------------------------------------------------------------------
(* DriveSubsystem *)

\* the targets a module holds after it received cmds
SpeedTargetAfter(old, cmds) ==
    IF SpeedCmds(cmds) = << >> THEN old ELSE SpeedCmds(cmds)[Len(SpeedCmds(cmds))].speed
AngleTargetAfter(old, cmds) ==
    IF AngleCmds(cmds) = << >> THEN old ELSE << AngleCmds(cmds)[Len(AngleCmds(cmds))].angle >>

\* the front states applied to the module of the other side
DispatchCrossed(states) ==
    [i \in Modules |->
        applyState(states[CASE i = frontLeft -> frontRight [] i = frontRight -> frontLeft
                            [] OTHER -> i],
                   swerveAngle[i])]

\* self.frontLeftModule.applyState(frontLeftState) .. self.backRightModule.applyState(backRightState)
Dispatch(states) == [i \in Modules |-> applyState(states[i], swerveAngle[i])]

\* the robot-relative speeds arcadeDriveWithSpeeds computes
RobotChassisSpeeds(chassisSpeeds, coordinateMode) ==
    IF coordinateMode = "RobotRelative"
    THEN chassisSpeeds
    ELSE FromFieldRelativeSpeeds(chassisSpeeds.vx, chassisSpeeds.vy, chassisSpeeds.omega,
                                 odometry.pose.rot)

\* frontLeftModule.getPosition() .. backRightModule.getPosition(), in the order
\* they are passed to the odometry, when the sensors read positions and angles
ModulePositions(positions, angles) ==
    [i \in Modules |-> [distance |-> positions[i], angle |-> angles[i]]]

\* the subsystem after __init__ with the wheel offsets of constants.py being
\* wheelPositions, the sensors reading angles and positions; SwerveDrive4Kinematics
\* takes whatever four offsets it is given
ConstructedWith(wheelPositions, angles, positions) ==
    /\ kinematics = wheelPositions
    /\ swerveAngle = angles
    /\ wheelTotalPosition = positions
    /\ gyroYaw = 0
    /\ gyroAdjustment = 0
    /\ odometry = SwerveDrive4Odometry(getRotation(0, 0), ModulePositions(positions, angles),
                                       Pose2d(0, 0, 0))
    /\ wheelMotor = [i \in Modules |-> RatInt(0)]
    /\ swerveMotor = [i \in Modules |-> RatInt(0)]
    /\ wheelLinearVelocityTarget = [i \in Modules |-> RatInt(0)]
    /\ swerveAngleTarget = [i \in Modules |-> << >>]
    /\ sent = NoCommands
    /\ call = OdometryCall("__init__", Pose2d(0, 0, 0), getRotation(0, 0),
                           ModulePositions(positions, angles))
    /\ sensed = 0

\* the subsystem after __init__, the sensors reading angles and positions
Constructed(angles, positions) == ConstructedWith(kWheelPosition, angles, positions)

Init == \E positions \in StartPositions : Constructed(Reading(0, 0, 0, 0), positions)

\* the subsystem after __init__, the steering encoders reading any of the angles
InitSteered ==
    \E angles \in SwerveAngles, positions \in StartPositions : Constructed(angles, positions)

\* the subsystem after __init__ and setOdometryPosition(pose), the steering
\* encoders reading angles
InitDrive ==
    \E angles \in SwerveAngles, positions \in StartPositions, pose \in Poses :
        /\ kinematics = kWheelPosition
        /\ swerveAngle = angles
        /\ wheelTotalPosition = positions
        /\ gyroYaw = 0
        /\ gyroAdjustment = pose.rot
        /\ odometry = ResetPosition(getRotation(0, pose.rot), pose,
                                    ModulePositions(positions, angles))
        /\ wheelMotor = [i \in Modules |-> RatInt(0)]
        /\ swerveMotor = [i \in Modules |-> RatInt(0)]
        /\ wheelLinearVelocityTarget = [i \in Modules |-> RatInt(0)]
        /\ swerveAngleTarget = [i \in Modules |-> << >>]
        /\ sent = NoCommands
        /\ call = OdometryCall("setOdometryPosition", pose, getRotation(0, pose.rot),
                               ModulePositions(positions, angles))
        /\ sensed = 0

\* arcadeDriveWithSpeeds applying the states kinematics returned as they are
arcadeDriveWithSpeedsAsRequested(chassisSpeeds, coordinateMode, rest) ==
    \E robotChassisSpeeds \in {RobotChassisSpeeds(chassisSpeeds, coordinateMode)} :
    \E moduleStates \in {ToSwerveModuleStates(robotChassisSpeeds, rest)} :
    \E requested \in {[i \in Modules |-> SwerveModuleState(RatInt(moduleStates[i].speed),
                                                           moduleStates[i].angle)]} :
    \E cmds \in {Dispatch(requested)} :
        /\ sent' = cmds
        /\ wheelMotor' = [i \in Modules |-> WheelMotorAfter(wheelMotor[i], cmds[i])]
        /\ swerveMotor' =
                [i \in Modules |-> SwerveMotorAfter(swerveMotor[i], cmds[i], swerveAngle[i])]
        /\ wheelLinearVelocityTarget' =
                [i \in Modules |-> SpeedTargetAfter(wheelLinearVelocityTarget[i], cmds[i])]
        /\ swerveAngleTarget' =
                [i \in Modules |-> AngleTargetAfter(swerveAngleTarget[i], cmds[i])]
        /\ call' = DriveCall(chassisSpeeds, coordinateMode, robotChassisSpeeds,
                             moduleStates, requested, swerveAngle)
        /\ UNCHANGED << kinematics, swerveAngle, wheelTotalPosition, gyroYaw,
                        gyroAdjustment, odometry, sensed >>

\* arcadeDriveWithSpeeds updating the odometry on its way
arcadeDriveWithSpeedsUpdating(chassisSpeeds, coordinateMode, rest) ==
    \E robotChassisSpeeds \in {RobotChassisSpeeds(chassisSpeeds, coordinateMode)} :
    \E moduleStates \in {ToSwerveModuleStates(robotChassisSpeeds, rest)} :
    \E desaturated \in {DesaturateWheelSpeeds(moduleStates, kMaxWheelLinearVelocity)} :
    \E cmds \in {Dispatch(desaturated)} :
        /\ sent' = cmds
        /\ wheelMotor' = [i \in Modules |-> WheelMotorAfter(wheelMotor[i], cmds[i])]
        /\ swerveMotor' =
                [i \in Modules |-> SwerveMotorAfter(swerveMotor[i], cmds[i], swerveAngle[i])]
        /\ wheelLinearVelocityTarget' =
                [i \in Modules |-> SpeedTargetAfter(wheelLinearVelocityTarget[i], cmds[i])]
        /\ swerveAngleTarget' =
                [i \in Modules |-> AngleTargetAfter(swerveAngleTarget[i], cmds[i])]
        /\ call' = DriveCall(chassisSpeeds, coordinateMode, robotChassisSpeeds,
                             moduleStates, desaturated, swerveAngle)
        /\ odometry' = Update(odometry, getRotation(gyroYaw, gyroAdjustment),
                              ModulePositions(wheelTotalPosition, swerveAngle))
        /\ UNCHANGED << kinematics, swerveAngle, wheelTotalPosition, gyroYaw, gyroAdjustment, sensed >>

\* arcadeDriveWithSpeeds; each local is bound once, as the code computes it once
arcadeDriveWithSpeeds(chassisSpeeds, coordinateMode, rest) ==
    \E robotChassisSpeeds \in {RobotChassisSpeeds(chassisSpeeds, coordinateMode)} :
    \E moduleStates \in {ToSwerveModuleStates(robotChassisSpeeds, rest)} :
    \E desaturated \in {DesaturateWheelSpeeds(moduleStates, kMaxWheelLinearVelocity)} :
    \E cmds \in {Dispatch(desaturated)} :
        /\ sent' = cmds
        /\ wheelMotor' = [i \in Modules |-> WheelMotorAfter(wheelMotor[i], cmds[i])]
        /\ swerveMotor' =
                [i \in Modules |-> SwerveMotorAfter(swerveMotor[i], cmds[i], swerveAngle[i])]
        /\ wheelLinearVelocityTarget' =
              [i \in Modules |-> SpeedTargetAfter(wheelLinearVelocityTarget[i], cmds[i])]
        /\ swerveAngleTarget' =
              [i \in Modules |-> AngleTargetAfter(swerveAngleTarget[i], cmds[i])]
        /\ call' = DriveCall(chassisSpeeds, coordinateMode, robotChassisSpeeds,
                             moduleStates, desaturated, swerveAngle)
        /\ UNCHANGED << kinematics, swerveAngle, wheelTotalPosition, gyroYaw, gyroAdjustment,
                        odometry, sensed >>

\* arcadeDriveWithSpeeds with chassis speeds drawn from the given sets
DriveWithSpeeds(forward, sideways, angular) ==
    \E vx \in forward, vy \in sideways, omega \in angular,
       coordinateMode \in CoordinateMode :
    \E rest \in RestAnglesFor(ChassisSpeeds(vx, vy, omega)) :
        arcadeDriveWithSpeeds(ChassisSpeeds(vx, vy, omega), coordinateMode, rest)

\* arcadeDriveWithFactors with the three factors drawn from the given set
DriveWithFactors(factors) ==
    \E forwardSpeedFactor \in factors, sidewaysSpeedFactor \in factors,
       rotationSpeedFactor \in factors,
       coordinateMode \in CoordinateMode :
    \E chassisSpeeds \in {ChassisSpeeds(
                              (forwardSpeedFactor * kMaxForwardLinearVelocity) \div 100,
                              (sidewaysSpeedFactor * kMaxSidewaysLinearVelocity) \div 100,
                              (rotationSpeedFactor * kMaxRotationAngularVelocity) \div 100)} :
    \E rest \in RestAnglesFor(chassisSpeeds) :
        arcadeDriveWithSpeeds(chassisSpeeds, coordinateMode, rest)

ArcadeDriveWithSpeeds == DriveWithSpeeds(FewForwardSpeeds, FewSidewaysSpeeds, FewAngularSpeeds)

ArcadeDriveWithFactors == DriveWithFactors(FewFactors)

ArcadeDriveWithAnySpeeds == DriveWithSpeeds(ForwardSpeeds, SidewaysSpeeds, AngularSpeeds)

ArcadeDriveWithAnyFactors == DriveWithFactors(Factors)

Periodic ==
    \E heading \in {getRotation(gyroYaw, gyroAdjustment)} :
    \E positions \in {ModulePositions(wheelTotalPosition, swerveAngle)} :
        /\ odometry' = Update(odometry, heading, positions)
        /\ sent' = NoCommands
        /\ call' = OdometryCall("periodic", Pose2d(0, 0, 0), heading, positions)
        /\ UNCHANGED << kinematics, wheelMotor, swerveMotor, swerveAngle, wheelTotalPosition, gyroYaw, gyroAdjustment,
                        wheelLinearVelocityTarget, swerveAngleTarget, sensed >>

\* resetSwerveModules reading the gyro and the modules before it resets them
ResetSwerveModulesReadingFirst ==
    \E isReal \in BOOLEAN :
    \E heading \in {getRotation(gyroYaw, gyroAdjustment)} :
    \E positions \in {ModulePositions(wheelTotalPosition, swerveAngle)} :
        /\ swerveAngle' = [i \in Modules |-> resetAngle(isReal, swerveAngle[i])]
        /\ gyroYaw' = 0
        /\ odometry' = ResetPosition(heading, Pose2d(0, 0, 0), positions)
        /\ sent' = NoCommands
        /\ call' = OdometryCall("resetSwerveModules", Pose2d(0, 0, 0), heading, positions)
        /\ UNCHANGED << kinematics, wheelMotor, swerveMotor, wheelTotalPosition, gyroAdjustment,
                        wheelLinearVelocityTarget, swerveAngleTarget, sensed >>

\* resetSwerveModules; RobotBase.isReal() decided the class of the four modules
\* at construction
ResetSwerveModules ==
    \E isReal \in BOOLEAN :
    \E angles \in {[i \in Modules |-> resetAngle(isReal, swerveAngle[i])]} :
    \E heading \in {getRotation(0, gyroAdjustment)} :
    \E positions \in {ModulePositions(wheelTotalPosition, angles)} :
        /\ swerveAngle' = angles
        /\ gyroYaw' = 0
        /\ odometry' = ResetPosition(heading, Pose2d(0, 0, 0), positions)
        /\ sent' = NoCommands
        /\ call' = OdometryCall("resetSwerveModules", Pose2d(0, 0, 0), heading, positions)
        /\ UNCHANGED << kinematics, wheelMotor, swerveMotor, wheelTotalPosition, gyroAdjustment,
                        wheelLinearVelocityTarget, swerveAngleTarget, sensed >>

SetOdometryPosition ==
    \E pose \in Poses :
    \E heading \in {getRotation(gyroYaw, pose.rot)} :
    \E positions \in {ModulePositions(wheelTotalPosition, swerveAngle)} :
        /\ gyroAdjustment' = pose.rot
        /\ odometry' = ResetPosition(heading, pose, positions)
        /\ sent' = NoCommands
        /\ call' = OdometryCall("setOdometryPosition", pose, heading, positions)
        /\ UNCHANGED << kinematics, wheelMotor, swerveMotor, swerveAngle, wheelTotalPosition, gyroYaw,
                        wheelLinearVelocityTarget, swerveAngleTarget, sensed >>

ResetGyro ==
    \E pose \in Poses :
    \E heading \in {getRotation(0, pose.rot)} :
    \E positions \in {ModulePositions(wheelTotalPosition, swerveAngle)} :
        /\ gyroYaw' = 0
        /\ gyroAdjustment' = pose.rot
        /\ odometry' = ResetPosition(heading, pose, positions)
        /\ sent' = NoCommands
        /\ call' = OdometryCall("resetGyro", pose, heading, positions)
        /\ UNCHANGED << kinematics, wheelMotor, swerveMotor, swerveAngle, wheelTotalPosition,
                        wheelLinearVelocityTarget, swerveAngleTarget, sensed >>

\* setWheelLinearVelocityTarget(target) on each of the four modules
SetWheelLinearVelocityTarget ==
    \E target \in WheelTargets :
    \E cmds \in {[i \in Modules |-> << SpeedCmd(RatInt(target)) >>]} :
        /\ sent' = cmds
        /\ wheelMotor' = [i \in Modules |-> WheelMotorAfter(wheelMotor[i], cmds[i])]
        /\ wheelLinearVelocityTarget' =
                [i \in Modules |-> SpeedTargetAfter(wheelLinearVelocityTarget[i], cmds[i])]
        /\ call' = ModuleCall("setWheelLinearVelocityTarget", swerveAngle)
        /\ UNCHANGED << kinematics, swerveAngle, wheelTotalPosition, gyroYaw, gyroAdjustment,
                        odometry, swerveMotor, swerveAngleTarget, sensed >>

\* setSwerveAngleTarget(target) on each of the four modules
SetSwerveAngleTarget ==
    \E target \in AngleTargets :
    \E cmds \in {[i \in Modules |-> << AngleCmd(target) >>]} :
        /\ sent' = cmds
        /\ swerveMotor' =
                [i \in Modules |-> SwerveMotorAfter(swerveMotor[i], cmds[i], swerveAngle[i])]
        /\ swerveAngleTarget' =
                [i \in Modules |-> AngleTargetAfter(swerveAngleTarget[i], cmds[i])]
        /\ call' = ModuleCall("setSwerveAngleTarget", swerveAngle)
        /\ UNCHANGED << kinematics, swerveAngle, wheelTotalPosition, gyroYaw, gyroAdjustment,
                        odometry, wheelMotor, wheelLinearVelocityTarget, sensed >>

-----------------------------------------------------------------------------
(* DriveSubsystem.rotatePoint and shiftPoint *)

\* rotatePoint(x, y, angle, ccw), the angle in degrees
rotatePoint(x, y, angle, ccw) ==
    LET invert == (IF ccw THEN 1 ELSE 0) * 2 - 1
        xNew == x * Cos(angle) - y * Sin(angle) * invert
        yNew == x * Sin(angle) + y * Cos(angle) * invert
    IN  << RoundDiv(xNew, TrigScale), RoundDiv(yNew, TrigScale) >>

\* shiftPoint(savedPose, currentPose)
shiftPoint(savedPose, currentPose) ==
    LET xDelta == savedPose.x - currentPose.x
        yDelta == savedPose.y - currentPose.y
        coords == rotatePoint(xDelta, yDelta, currentPose.rot * (-1), TRUE)
    IN  Pose2d(coords[1], coords[2], 0)

\* a rotatePoint call: its arguments and what it returned
RotatePointCall(op, point, angle, ccw, result) ==
    [op |-> op, point |-> point, angle |-> angle, ccw |-> ccw, result |-> result]

\* a shiftPoint call: its arguments and what it returned
ShiftPointCall(savedPose, currentPose, result) ==
    [op |-> "shiftPoint", savedPose |-> savedPose, currentPose |-> currentPose,
     result |-> result]

\* rotatePoint(x, y, angle, ccw)
RotatePoint ==
    \E x \in Coordinates, y \in Coordinates, angle \in QuarterTurns, ccw \in BOOLEAN :
        /\ call' = RotatePointCall("rotatePoint", << x, y >>, angle, ccw,
                                   rotatePoint(x, y, angle, ccw))
        /\ UNCHANGED << kinematics, swerveAngle, wheelTotalPosition, gyroYaw, gyroAdjustment,
                        odometry, wheelMotor, swerveMotor, wheelLinearVelocityTarget,
                        swerveAngleTarget, sent, sensed >>

\* rotatePoint(*r, angle, not ccw) of the r a rotatePoint call returned for angle
RotatePointBack ==
    /\ call.op = "rotatePoint"
    /\ call' = RotatePointCall("rotatePoint of rotatePoint", call.point, call.angle, ~call.ccw,
                               rotatePoint(call.result[1], call.result[2], call.angle,
                                           ~call.ccw))
    /\ UNCHANGED << kinematics, swerveAngle, wheelTotalPosition, gyroYaw, gyroAdjustment,
                    odometry, wheelMotor, swerveMotor, wheelLinearVelocityTarget,
                    swerveAngleTarget, sent, sensed >>

\* shiftPoint(savedPose, currentPose)
ShiftPoint ==
    \E x \in Coordinates, y \in Coordinates, rot \in QuarterTurns :
    \E savedPose \in {Pose2d(2, 1, 90), Pose2d(-3, 0, 0)} :
    \E currentPose \in {Pose2d(x, y, rot)} :
        /\ call' = ShiftPointCall(savedPose, currentPose, shiftPoint(savedPose, currentPose))
        /\ UNCHANGED << kinematics, swerveAngle, wheelTotalPosition, gyroYaw, gyroAdjustment,
                        odometry, wheelMotor, swerveMotor, wheelLinearVelocityTarget,
                        swerveAngleTarget, sent, sensed >>

-----------------------------------------------------------------------------
(* The robot: what the sensors read changes between operations *)

Steer ==
    \E angles \in SwerveAngles :
        /\ sensed < MaxSensed
        /\ angles # swerveAngle
        /\ swerveAngle' = angles
        /\ sensed' = sensed + 1
        /\ UNCHANGED << kinematics, wheelMotor, swerveMotor, wheelTotalPosition, gyroYaw, gyroAdjustment, odometry,
                        wheelLinearVelocityTarget, swerveAngleTarget, sent, call >>

Roll ==
    \E move \in WheelMoves :
        /\ sensed < MaxSensed
        /\ wheelTotalPosition' = [i \in Modules |-> wheelTotalPosition[i] + move[i]]
        /\ sensed' = sensed + 1
        /\ UNCHANGED << kinematics, wheelMotor, swerveMotor, swerveAngle, gyroYaw, gyroAdjustment, odometry,
                        wheelLinearVelocityTarget, swerveAngleTarget, sent, call >>

Turn ==
    \E q \in {-90, 90} :
        /\ sensed < MaxSensed
        /\ gyroYaw' = gyroYaw + q
        /\ sensed' = sensed + 1
        /\ UNCHANGED << kinematics, wheelMotor, swerveMotor, swerveAngle, wheelTotalPosition, gyroAdjustment, odometry,
                        wheelLinearVelocityTarget, swerveAngleTarget, sent, call >>

Next ==
    \/ ArcadeDriveWithSpeeds
    \/ ArcadeDriveWithFactors
    \/ Periodic
    \/ ResetSwerveModules
    \/ SetOdometryPosition
    \/ ResetGyro
    \/ Steer
    \/ Roll
    \/ Turn

\* the whole subsystem, with few speeds
Spec == Init /\ [][Next]_vars

NextDrive ==
    \/ ArcadeDriveWithAnySpeeds
    \/ ArcadeDriveWithAnyFactors

\* the drive calls, with more speeds, for every reading of the steering encoders
SpecDrive == InitDrive /\ [][NextDrive]_vars

NextOdometry ==
    \/ Periodic
    \/ ResetSwerveModules
    \/ SetOdometryPosition
    \/ ResetGyro
    \/ Steer
    \/ Roll
    \/ Turn

\* the odometry calls
SpecOdometry == Init /\ [][NextOdometry]_vars

\* the subsystem after __init__ with any of the geometries in constants.py
InitConfigured ==
    \E wheelPositions \in Geometries, positions \in StartPositions :
        ConstructedWith(wheelPositions, Reading(0, 0, 0, 0), positions)

NextConstructed ==
    \/ ArcadeDriveWithAnySpeeds
    \/ ArcadeDriveWithAnyFactors
    \/ Periodic

\* drive and periodic calls on the subsystem built from any of the geometries
SpecConstruct == InitConfigured /\ [][NextConstructed]_vars

NextPoint ==
    \/ RotatePoint
    \/ RotatePointBack
    \/ ShiftPoint

\* rotatePoint and shiftPoint calls on the constructed subsystem
SpecPoint == Init /\ [][NextPoint]_vars

NextPWM ==
    \/ SetWheelLinearVelocityTarget
    \/ SetSwerveAngleTarget
    \/ ArcadeDriveWithSpeeds
    \/ Steer

\* the simulation modules commanded one method at a time and by drive calls
SpecPWM == InitSteered /\ [][NextPWM]_vars

\* the odometry operations, from modules steered any way
SpecUpdate == InitSteered /\ [][NextOdometry]_vars

-----------------------------------------------------------------------------
(* SwerveModule.applyState *)

\* the last operation was a drive call
Driven == call.op = "arcadeDriveWithSpeeds"

\* the shortest signed delta from module i's angle to the angle of its state
StateDelta(i) == AngleDelta(call.desaturated[i].angle, call.currentAngle[i])

\* angles a and b are the same direction, modulo a full turn
SameDirection(a, b) == (a - b) % 360 = 0

\* the speed target module i received in the last drive call
SpeedSent(i) == SpeedCmds(sent[i])[1].speed

\* the angle targets module i received in the last drive call
AnglesSent(i) == {AngleCmds(sent[i])[k].angle : k \in 1 .. Len(AngleCmds(sent[i]))}

\* C1: every angle target applyState passes to setSwerveAngleTarget has a
\* shortest signed delta from the module's current angle of at most 90 degrees
C1_TargetWithinQuarterTurn ==
    Driven =>
        \A i \in Modules : \A a \in AnglesSent(i) :
            Abs(AngleDelta(a, call.currentAngle[i])) <= 90

\* a module received an angle target for a state more than 90 degrees from
\* its angle
C1_Witness ==
    /\ Driven
    /\ \E i \in Modules : AnglesSent(i) # {} /\ Abs(StateDelta(i)) > 90

\* C2: the speed applyState passes on is the state's speed or its negation,
\* and whenever an angle is dispatched it is the state's angle or that angle
\* rotated by 180 degrees, the speed being negated exactly when it is rotated
C2_SpeedFlipsWithAngle ==
    Driven =>
        \A i \in Modules :
            /\ SpeedSent(i) \in {call.desaturated[i].speed, RatNeg(call.desaturated[i].speed)}
            /\ \A a \in AnglesSent(i) :
                /\ SameDirection(a, call.desaturated[i].angle)
                    \/ SameDirection(a, call.desaturated[i].angle + 180)
                /\ SpeedSent(i) = RatNeg(call.desaturated[i].speed)
                    <=> SameDirection(a, call.desaturated[i].angle + 180)
                /\ SameDirection(a, call.desaturated[i].angle)
                    => SpeedSent(i) = call.desaturated[i].speed

\* a module received a negated speed with an angle rotated by 180 degrees,
\* another in the same call its state's speed and angle
C2_Witness ==
    /\ Driven
    /\ \E i, j \in Modules :
        /\ AnglesSent(i) = {Norm(call.desaturated[i].angle + 180)}
        /\ SpeedSent(i) = RatNeg(call.desaturated[i].speed)
        /\ AnglesSent(j) = {call.desaturated[j].angle}
        /\ SpeedSent(j) = call.desaturated[j].speed

\* at a delta of exactly 90 degrees either way the state is dispatched as it is
C3_QuarterTurnKept ==
    Driven =>
        \A i \in Modules :
            Abs(StateDelta(i)) = 90 =>
                /\ SpeedSent(i) = call.desaturated[i].speed
                /\ AnglesSent(i) \subseteq {call.desaturated[i].angle}

\* two applyState calls, in one drive call or in two that follow each other,
\* with the same state and the same current angle dispatch the same commands
C3_SameInSameOut ==
    \A i, j \in Modules :
        /\ Driven /\ call.desaturated[i] = call.desaturated[j]
                  /\ call.currentAngle[i] = call.currentAngle[j]
            => sent[i] = sent[j]
        /\ Driven /\ call'.op = "arcadeDriveWithSpeeds"
                  /\ call'.desaturated[i] = call.desaturated[j]
                  /\ call'.currentAngle[i] = call.currentAngle[j]
            => sent'[i] = sent[j]

\* C3: when the shortest signed delta from the module's angle to the target
\* angle is exactly +90 or -90 degrees applyState does not flip (the angle
\* dispatched is the target angle, the speed keeps its sign), and applyState
\* calls with identical inputs dispatch identical commands
C3_QuarterTurnAndDeterminism == [] C3_QuarterTurnKept /\ [][C3_SameInSameOut]_vars

\* modules a quarter turn either way from their states received the states'
\* speeds and angles
C3_Witness ==
    /\ Driven
    /\ \E i, j \in Modules :
        /\ StateDelta(i) = 90 /\ AnglesSent(i) # {}
        /\ StateDelta(j) = -90 /\ AnglesSent(j) # {}

-----------------------------------------------------------------------------
(* DriveSubsystem.arcadeDriveWithSpeeds *)

\* the largest speed magnitude among the four states kinematics returned
MaxRequested == MaxOver([i \in Modules |-> Abs(call.moduleStates[i].speed)], Modules)

\* C4: when the largest of the four speed magnitudes exceeds
\* kMaxWheelLinearVelocity all four speeds are multiplied by the one factor
\* limit / largest, so the ratio of any two is preserved and the largest
\* magnitude becomes the limit; otherwise the four states are unchanged; the
\* four angles are unchanged either way
C4_Desaturation ==
    Driven =>
        /\ \A i \in Modules : call.desaturated[i].angle = call.moduleStates[i].angle
        /\ MaxRequested <= kMaxWheelLinearVelocity =>
                \A i \in Modules :
                    call.desaturated[i].speed = RatInt(call.moduleStates[i].speed)
        /\ MaxRequested > kMaxWheelLinearVelocity =>
                /\ \A i \in Modules :
                        call.desaturated[i].speed =
                            RatMul(RatInt(call.moduleStates[i].speed),
                                   Rat(kMaxWheelLinearVelocity, MaxRequested))
                /\ \A i, j \in Modules :
                        RatMul(call.desaturated[i].speed, RatInt(call.moduleStates[j].speed))
                            = RatMul(call.desaturated[j].speed, RatInt(call.moduleStates[i].speed))
                /\ \E i \in Modules :
                        RatAbs(call.desaturated[i].speed) = RatInt(kMaxWheelLinearVelocity)
                /\ \A i \in Modules :
                        ~RatLess(RatInt(kMaxWheelLinearVelocity), RatAbs(call.desaturated[i].speed))

\* a drive call asked for two different wheel speeds, both above the limit
C4_Witness ==
    /\ Driven
    /\ \E i, j \in Modules :
        /\ call.moduleStates[i].speed > call.moduleStates[j].speed
        /\ call.moduleStates[j].speed > kMaxWheelLinearVelocity
        /\ RatLess(call.desaturated[j].speed, call.desaturated[i].speed)

\* C5: a drive call with forward = sideways = rotation = 0, in either
\* coordinate mode and whatever the heading and the module angles, sends the
\* speed target 0 to each of the four modules and no angle target to any
C5_ZeroCommand ==
    Driven /\ call.chassisSpeeds = ChassisSpeeds(0, 0, 0) =>
        \A i \in Modules : sent[i] = << SpeedCmd(RatInt(0)) >>

\* a zero command in FieldRelative mode at a heading other than 0, to modules
\* that hold angle targets of an earlier call and stand at a nonzero angle
C5_Witness ==
    /\ Driven
    /\ call.chassisSpeeds = ChassisSpeeds(0, 0, 0)
    /\ call.coordinateMode = "FieldRelative"
    /\ odometry.pose.rot # 0
    /\ \A i \in Modules : wheelLinearVelocityTarget[i] = RatInt(0)
    /\ \E i \in Modules : swerveAngleTarget[i] # << >> /\ call.currentAngle[i] # 0

\* each module received one speed target, and an angle target exactly when
\* the magnitude of that speed is at least kMinWheelLinearVelocity
C6_Commands ==
    Driven =>
        \A i \in Modules :
            /\ Len(SpeedCmds(sent[i])) = 1
            /\ Len(sent[i]) = 1 + Len(AngleCmds(sent[i]))
            /\ AngleCmds(sent[i]) # << >>
                <=> ~RatLess(RatAbs(SpeedSent(i)), RatInt(kMinWheelLinearVelocity))

\* a drive call that sends a module no angle target leaves the module's angle
\* target as it was
C6_TargetKept ==
    \A i \in Modules :
        call'.op = "arcadeDriveWithSpeeds" /\ AngleCmds(sent'[i]) = << >>
            => swerveAngleTarget'[i] = swerveAngleTarget[i]

\* C6: in every applyState call the module receives exactly one
\* setWheelLinearVelocityTarget command, and a setSwerveAngleTarget command if
\* and only if the magnitude of the optimized speed is at least
\* kMinWheelLinearVelocity; below it the angle target commanded before stays
C6_SpeedAlwaysAngleAboveMinimum == [] C6_Commands /\ [][C6_TargetKept]_vars

\* a module received a nonzero speed below the minimum and no angle target,
\* and still holds the angle target of an earlier call
C6_Witness ==
    /\ Driven
    /\ \E i \in Modules :
        /\ AngleCmds(sent[i]) = << >>
        /\ SpeedSent(i) # RatInt(0)
        /\ swerveAngleTarget[i] # << >>
        /\ wheelLinearVelocityTarget[i] = SpeedSent(i)

\* the commands of a RobotRelative drive call with chassisSpeeds to modules at
\* currentAngle
RobotRelativeCommands(chassisSpeeds, currentAngle, rest) ==
    LET desaturated == DesaturateWheelSpeeds(ToSwerveModuleStates(chassisSpeeds, rest),
                                             kMaxWheelLinearVelocity)
    IN  [i \in Modules |-> applyState(desaturated[i], currentAngle[i])]

\* C9: at an estimated heading of 0 a FieldRelative drive call issues the
\* speed and angle commands of the RobotRelative call with the same
\* (vx, vy, omega) and module angles, and at any heading the omega used in
\* FieldRelative mode is the commanded omega
C9_FieldRelativeAtHeadingZero ==
    Driven /\ call.coordinateMode = "FieldRelative" =>
        /\ call.robotChassisSpeeds.omega = call.chassisSpeeds.omega
        /\ odometry.pose.rot = 0 =>
                \A rest \in RestAnglesFor(call.chassisSpeeds) :
                    sent = RobotRelativeCommands(call.chassisSpeeds, call.currentAngle, rest)

\* a FieldRelative call at heading 0 with forward, sideways and rotation
\* speeds that sent angle targets
C9_Witness ==
    /\ Driven
    /\ call.coordinateMode = "FieldRelative"
    /\ odometry.pose.rot = 0
    /\ call.chassisSpeeds.vx # 0 /\ call.chassisSpeeds.vy # 0 /\ call.chassisSpeeds.omega # 0
    /\ \A i \in Modules : AnglesSent(i) # {}

-----------------------------------------------------------------------------
(* DriveSubsystem.periodic and the resets *)

\* frontLeftModule.getPosition() .. backRightModule.getPosition() now
PositionsNow == ModulePositions(wheelTotalPosition, swerveAngle)

\* a periodic() call that passes the odometry the heading and the four module
\* positions the operation before it passed leaves the pose as it was
C7_SameReadingsSamePose ==
    call.op \in OdometryOps /\ call'.op = "periodic" /\ call'.readings = call.readings
        => odometry'.pose = odometry.pose

\* C7: periodic() calls during which the heading reading and the four module
\* position readings (distance and angle) stay unchanged leave the odometry
\* pose exactly what it was before those calls
C7_UnchangedReadingsKeepPose == [][C7_SameReadingsSamePose]_vars

\* periodic() has integrated a roll of the wheels into the pose, and the
\* readings are still the ones it passed: the next periodic() sees them unchanged
C7_Witness ==
    /\ call.op = "periodic"
    /\ call.readings.positions = PositionsNow
    /\ call.readings.heading = getRotation(gyroYaw, gyroAdjustment)
    /\ wheelTotalPosition \notin StartPositions
    /\ odometry.pose.x # 0
    /\ ENABLED (Periodic /\ odometry'.pose = odometry.pose)

\* after setOdometryPosition(pose) or resetGyro(pose) the pose is the given
\* pose, after resetSwerveModules() the zero pose
C8_PoseGiven ==
    /\ call.op \in {"setOdometryPosition", "resetGyro"} => odometry.pose = call.pose
    /\ call.op = "resetSwerveModules" => odometry.pose = Pose2d(0, 0, 0)

\* a periodic() that follows a reset with the heading and the module positions
\* the reset passed leaves the pose the given pose, or the zero pose
C8_UpdateAfterReset ==
    call.op \in ResetOps /\ call'.op = "periodic" /\ call'.readings = call.readings
        => /\ call.op \in {"setOdometryPosition", "resetGyro"} => odometry'.pose = call.pose
           /\ call.op = "resetSwerveModules" => odometry'.pose = Pose2d(0, 0, 0)

\* C8: after setOdometryPosition(pose) or resetGyro(pose), whatever the module
\* distances were before, the odometry pose is the given pose, and a periodic()
\* that follows immediately with the same heading and module positions leaves
\* it the given pose; after resetSwerveModules() the same holds of the zero pose
C8_ResetThenUpdate == [] C8_PoseGiven /\ [][C8_UpdateAfterReset]_vars

\* the wheels rolled, a reset gave a pose other than the zero pose, and the
\* periodic() after it has run: the pose is the given pose
C8_Witness ==
    /\ call.op = "periodic"
    /\ wheelTotalPosition \notin StartPositions
    /\ odometry.previousDistance = wheelTotalPosition
    /\ odometry.pose \in Poses \ {Pose2d(0, 0, 0)}

-----------------------------------------------------------------------------
(* The order of the four modules *)

\* kinematics returns for module i the state of the wheel at kWheelPosition[i],
\* and the odometry is constructed from the positions of the modules in order
C10_OrderNow ==
    /\ Driven =>
        \A i \in Modules : \E rest \in RestAngles :
            call.moduleStates[i] = ModuleState(kWheelPosition[i], call.robotChassisSpeeds, rest)
    /\ Driven =>
        \A i \in Modules : call.desaturated[i].angle = call.moduleStates[i].angle
    /\ call.op = "__init__" /\ sensed = 0 =>
        \A i \in Modules :
            /\ call.readings.positions[i] =
                    [distance |-> wheelTotalPosition[i], angle |-> swerveAngle[i]]
            /\ odometry.previousDistance[i] = wheelTotalPosition[i]

\* a drive call applies state i to module i, which reads its own angle and
\* takes its own targets; periodic() and the resets pass as position i what
\* module i reads
C10_OrderKept ==
    \A i \in Modules :
        /\ sensed' = sensed /\ call'.op = "arcadeDriveWithSpeeds" =>
            /\ call'.currentAngle[i] = swerveAngle[i]
            /\ sent'[i] = applyState(call'.desaturated[i], swerveAngle[i])
            /\ wheelLinearVelocityTarget'[i] = SpeedCmds(sent'[i])[1].speed
            /\ AngleCmds(sent'[i]) # << >> =>
                    swerveAngleTarget'[i] = << AngleCmds(sent'[i])[1].angle >>
        /\ sensed' = sensed /\ call'.op \in {"periodic"} \cup ResetOps =>
            /\ call'.readings.positions[i] =
                    [distance |-> wheelTotalPosition'[i], angle |-> swerveAngle'[i]]
            /\ odometry'.previousDistance[i] = wheelTotalPosition'[i]

\* C10: the order front-left, front-right, back-left, back-right is the same
\* everywhere: the i-th state kinematics returns, for the i-th wheel offset, is
\* applied to the i-th module in every drive call, and the i-th position passed
\* to the odometry at construction, in every periodic() and in every reset is
\* read from the i-th module
C10_ModuleOrder == [] C10_OrderNow /\ [][C10_OrderKept]_vars

\* a drive call gave four modules standing at different angles four different
\* states, after the odometry had read four different positions
C10_Witness ==
    /\ Driven
    /\ \A i, j \in Modules :
        i # j => /\ call.desaturated[i] # call.desaturated[j]
                 /\ call.currentAngle[i] # call.currentAngle[j]
                 /\ odometry.previousDistance[i] # odometry.previousDistance[j]
                 /\ sent[i] # sent[j]

-----------------------------------------------------------------------------
(* What each operation leaves alone *)

\* only periodic() and the resets change the odometry; a drive call leaves it
\* as it was; periodic() sends no command and leaves the modules' targets
C11_Frame ==
    /\ odometry' # odometry => call'.op \in {"periodic"} \cup ResetOps
    /\ call'.op = "arcadeDriveWithSpeeds" /\ sensed' = sensed => odometry' = odometry
    /\ call'.op = "periodic" /\ sensed' = sensed =>
        /\ sent' = NoCommands
        /\ wheelLinearVelocityTarget' = wheelLinearVelocityTarget
        /\ swerveAngleTarget' = swerveAngleTarget

\* C11: the odometry state (pose and last-position snapshot) changes only in
\* periodic() and in resetSwerveModules, setOdometryPosition and resetGyro;
\* arcadeDriveWithFactors and arcadeDriveWithSpeeds leave it unchanged in both
\* coordinate modes, and periodic() issues no speed or angle command
C11_OdometryAndCommandsApart == [][C11_Frame]_vars

\* a FieldRelative drive call has run while the wheels stood away from the
\* odometry's snapshot, and the snapshot and a pose given before are still there
C11_Witness ==
    /\ Driven
    /\ call.coordinateMode = "FieldRelative"
    /\ \E i \in Modules : AnglesSent(i) # {}
    /\ odometry.previousDistance # wheelTotalPosition
    /\ odometry.previousDistance \in StartPositions
    /\ odometry.pose \in Poses \ {Pose2d(0, 0, 0)}

-----------------------------------------------------------------------------
(* Skipped cycles *)

\* the positions periodic() would have read in the cycle that was skipped,
\* the wheels having rolled moves from the snapshot, the angles being those
\* it reads now
SkippedPositions(moves) ==
    [i \in Modules |-> [distance |-> odometry.previousDistance[i] + moves[i],
                        angle |-> call'.readings.positions[i].angle]]

\* a periodic() at the heading of the update before it leaves the odometry
\* where two updates would have, one at any distances between and one now
C12_OneUpdateForTwo ==
    /\ call'.op = "periodic"
    /\ sensed' = sensed
    /\ Norm(call'.readings.heading + odometry.gyroOffset) = odometry.previousAngle
    => \A moves \in SkippedMoves :
            Update(Update(odometry, call'.readings.heading, SkippedPositions(moves)),
                   call'.readings.heading, call'.readings.positions) = odometry'

\* C12: with the heading and the four module angles held constant, one
\* odometry update from module distances d to d + a + b yields the pose of two
\* consecutive updates from d to d + a and from d + a to d + a + b, for all
\* per-module increments a and b
C12_SkippedCyclesAdd == [][C12_OneUpdateForTwo]_vars

\* periodic() has integrated a roll of wheels that do not all point the same
\* way, at the heading of the update before
C12_Witness ==
    /\ call.op = "periodic"
    /\ odometry.previousDistance = wheelTotalPosition
    /\ wheelTotalPosition \notin StartPositions
    /\ \E i, j \in Modules : ~SameDirection(swerveAngle[i], swerveAngle[j])
    /\ odometry.pose.x # 0 /\ odometry.pose.y # 0
    /\ odometry.previousAngle = Norm(getRotation(gyroYaw, gyroAdjustment) + odometry.gyroOffset)

-----------------------------------------------------------------------------
(* Configuration errors *)

\* no two wheels on one offset
WellFormed(wheelPositions) ==
    \A i, j \in Modules : i # j => wheelPositions[i] # wheelPositions[j]

\* C13: a configuration error is fatal at construction: with malformed wheel
\* geometry (two equal wheel offsets) __init__ is rejected instead of
\* producing a usable drive subsystem, so no drive or periodic call runs on a
\* kinematics object built from such offsets
C13_MalformedGeometryRejected ==
    call.op \in {"arcadeDriveWithSpeeds", "periodic"} => WellFormed(kinematics)

-----------------------------------------------------------------------------
(* The wheel speed limit *)

\* C14: after any drive call (arcadeDriveWithFactors or arcadeDriveWithSpeeds,
\* either coordinate mode, any inputs, factors beyond 1 among them) every
\* speed target dispatched to a module has a magnitude of at most
\* kMaxWheelLinearVelocity
C14_SpeedTargetsWithinLimit ==
    Driven =>
        \A i \in Modules :
            /\ ~RatLess(RatInt(kMaxWheelLinearVelocity), RatAbs(SpeedSent(i)))
            /\ wheelLinearVelocityTarget[i] = SpeedSent(i)

\* a drive call with a forward speed of twice kMaxForwardLinearVelocity: a
\* module was asked for more than the limit and received the limit, another
\* in the same call received the negated limit
C14_Witness ==
    /\ Driven
    /\ Abs(call.chassisSpeeds.vx) > kMaxForwardLinearVelocity
    /\ \E i, j \in Modules :
        /\ call.moduleStates[i].speed > kMaxWheelLinearVelocity
        /\ SpeedSent(i) = RatInt(kMaxWheelLinearVelocity)
        /\ call.moduleStates[j].speed > kMaxWheelLinearVelocity
        /\ SpeedSent(j) = RatInt(-kMaxWheelLinearVelocity)

-----------------------------------------------------------------------------
(* DriveSubsystem.resetSwerveModules *)

\* resetSwerveModules passes the odometry the heading the gyro reads after
\* its reset and the positions the modules read after theirs, and the
\* odometry holds the zero pose and these readings when it returns
C15_ReadAfterResets ==
    call'.op = "resetSwerveModules" /\ sensed' = sensed =>
        /\ gyroYaw' = 0
        /\ call'.readings.heading = getRotation(gyroYaw', gyroAdjustment')
        /\ \A i \in Modules :
            /\ call'.readings.positions[i] =
                    [distance |-> wheelTotalPosition'[i], angle |-> swerveAngle'[i]]
            /\ odometry'.previousDistance[i] = wheelTotalPosition'[i]
        /\ odometry'.pose = Pose2d(0, 0, 0)
        /\ odometry'.gyroOffset = Norm(0 - getRotation(gyroYaw', gyroAdjustment'))

\* after a reset the pose, the previous angle, the gyro offset and the
\* snapshot are all of that reset: none is left of the time before it
C15_AllOfOneReset ==
    call.op \in ResetOps =>
        /\ odometry.pose = call.pose
        /\ odometry.previousAngle = call.pose.rot
        /\ odometry.gyroOffset = Norm(call.pose.rot - call.readings.heading)
        /\ \A i \in Modules :
                odometry.previousDistance[i] = call.readings.positions[i].distance

\* C15: resetSwerveModules resets the four modules and then the gyro before it
\* resets the odometry, so the heading and the module positions written into
\* the odometry are the ones read after those resets; pose and snapshot are
\* replaced together, so no state has the new pose with the old snapshot or
\* the old pose with the new snapshot
C15_ResetInOrderAndWhole == [] C15_AllOfOneReset /\ [][C15_ReadAfterResets]_vars

\* resetSwerveModules has run on modules whose reset changed the angles they
\* read; the odometry holds the readings taken after the resets, and a
\* periodic() now keeps the zero pose
C15_Witness ==
    /\ call.op = "resetSwerveModules"
    /\ swerveAngle \notin SwerveAngles
    /\ call.readings.positions = PositionsNow
    /\ odometry.pose = Pose2d(0, 0, 0)
    /\ ENABLED (Periodic /\ odometry'.pose = odometry.pose)

-----------------------------------------------------------------------------
(* PWMSwerveModule's motor outputs *)

\* r lies in [-1, 1]
WithinUnit(r) == ~RatLess(r, RatInt(-1)) /\ ~RatLess(RatInt(1), r)

\* out is r where r lies in [-1, 1], else the end of [-1, 1] nearer to r
ClampedTo(out, r) ==
    /\ WithinUnit(r) => out = r
    /\ RatLess(r, RatInt(-1)) => out = RatInt(-1)
    /\ RatLess(RatInt(1), r) => out = RatInt(1)

\* C16: every value PWMSwerveModule writes to the wheel motor and to the
\* steering motor lies in [-1, 1], for every speed target and every angle
\* target: the wheel output is the target divided by kMaxWheelLinearVelocity
\* clamped to [-1, 1], the steering output the difference between the target
\* angle and the encoder angle, in radians, clamped to [-1, 1]
C16_PWMOutputsWithinUnit ==
    \A i \in Modules :
        /\ WithinUnit(wheelMotor[i])
        /\ WithinUnit(swerveMotor[i])
        /\ call.op \in {"setWheelLinearVelocityTarget", "arcadeDriveWithSpeeds"} =>
                ClampedTo(wheelMotor[i], RatMul(SpeedSent(i), Rat(1, kMaxWheelLinearVelocity)))
        /\ call.op \in {"setSwerveAngleTarget", "arcadeDriveWithSpeeds"} =>
                \A a \in AnglesSent(i) :
                    ClampedTo(swerveMotor[i],
                              Rat(Radians(Norm(a)) - Radians(call.currentAngle[i]), 1000))

\* the wheel motors hold 1 for a speed target beyond kMaxWheelLinearVelocity,
\* and of the steering motors one holds -1, one 1 and one a value between, for
\* the one angle target the four modules were given last
C16_Witness ==
    /\ call.op = "setSwerveAngleTarget"
    /\ \A i \in Modules :
        /\ RatLess(RatInt(kMaxWheelLinearVelocity), wheelLinearVelocityTarget[i])
        /\ wheelMotor[i] = RatInt(1)
    /\ \E i, j, k \in Modules :
        /\ swerveMotor[i] = RatInt(-1)
        /\ swerveMotor[j] = RatInt(1)
        /\ swerveMotor[k] \notin {RatInt(-1), RatInt(0), RatInt(1)}

-----------------------------------------------------------------------------
(* rotatePoint and shiftPoint *)

\* C17: rotatePoint with ccw = False undoes rotatePoint with ccw = True for
\* the same angle: rotatePoint(*rotatePoint(x, y, angle, True), angle, False)
\* returns (x, y), for every point and every multiple of 90 degrees
C17_RotateBackRestores ==
    call.op = "rotatePoint of rotatePoint" /\ ~call.ccw => call.result = call.point

\* what rotatePoint with ccw = False returns for what rotatePoint with
\* ccw = True returned, and the other way round: the point mirrored in the
\* x axis, or in the axis at the angle
C17_RotateBackMirrors ==
    call.op = "rotatePoint of rotatePoint" =>
        IF ~call.ccw
        THEN call.result = << call.point[1], -call.point[2] >>
        ELSE call.result = rotatePoint(call.point[1], call.point[2], 2 * call.angle, FALSE)

\* shiftPoint returns, with heading 0, the position of savedPose in the frame
\* of currentPose: turned by currentPose's heading and moved by its position
\* it is the position of savedPose
C17_ShiftPointInFrame ==
    call.op = "shiftPoint" =>
        /\ call.result.rot = 0
        /\ call.savedPose.x = call.currentPose.x
                + RoundDiv(call.result.x * Cos(call.currentPose.rot)
                           - call.result.y * Sin(call.currentPose.rot), TrigScale)
        /\ call.savedPose.y = call.currentPose.y
                + RoundDiv(call.result.x * Sin(call.currentPose.rot)
                           + call.result.y * Cos(call.currentPose.rot), TrigScale)

====
